---- MODULE Spec2Model ----
(***************************************************************************)
(* PlayNetwork server cluster: identifier allocation (generateId), the     *)
(* shared routing table, per-connection sessions and the message           *)
(* dispatcher (_onMessage), over a shared coordination store (redis) and   *)
(* an inter-process link.                                                  *)
(***************************************************************************)
EXTENDS Integers, Sequences, FiniteSets, TLC

\* ------------------------------------------------------------------ bounds
NumProcs == 2          \* server processes in the cluster
NumConns == 1          \* client connections (connection c is accepted by ConnProc(c))
MaxId    == 2          \* highest id of a user, room or network entity
MaxEntities == 1       \* rooms and network entities created in a run
MaxCalls == 2          \* generateId calls and policy invocations pending at once
MaxInFlight == 1       \* messages suspended (on HGET, on users.get) or on the link at once
NumRegistries == 2     \* NetworkEntities registries (one per room)
MaxPlayers == 3         \* players added to a Players registry
MaxRequests == 4        \* requests a client sends with a callback
MaxCreates == 3        \* network entities a registry creates in a run

Procs == 1..NumProcs
Conns == 1..NumConns
Ids   == 1..MaxId                                            \* ids of users, rooms, network entities
AllIds == 1..(IF NumProcs > MaxId THEN NumProcs ELSE MaxId)  \* those and the server ids

ConnProc(c) == ((c - 1) % NumProcs) + 1

\* ------------------------------------------------------- values of the code
NoUser == 0            \* `let user = null`
NoCorr == -1           \* msg.id undefined
NaN    == -1           \* parseInt of a missing field
NoPlayer == 0          \* Map.get of a missing key

Kinds        == {"server", "user", "room", "networkEntity"}
EntityKinds  == {"room", "networkEntity"}
ReservedEvents == {"destroy"}          \* this._reservedEvents
GlobalEvents == {"chat"}               \* names with a handler on the PlayNetwork object
Names        == {"fire", "chat", "destroy"}
ScopeTypes   == {"none", "server", "user", "room", "networkEntity"}
CorrIds      == {NoCorr, 0, 7}
Replies      == {"none", "ok", "err", "throw"}  \* what a handler does: ignores its callback,
                                                \* calls it with a result / an error, throws

\* Number.prototype.toString for a non-negative integer: its decimal digits.
RECURSIVE ToStr(_)
ToStr(n) == IF n < 10 THEN <<n>> ELSE Append(ToStr(n \div 10), n % 10)

\* parseInt of a digit string; of null / undefined / "" it is NaN.
RECURSIVE ParseDigits(_, _)
ParseDigits(s, acc) ==
    IF s = <<>> THEN acc ELSE ParseDigits(Tail(s), acc * 10 + Head(s))

ParseInt(s) == IF s = <<>> THEN NaN ELSE ParseDigits(s, 0)

\* JavaScript truthiness of a number-or-undefined value (0, NaN, undefined are falsy).
Truthy(v) == v # 0 /\ v # NaN /\ v # NoCorr

\* redis hash commands; a missing field reads as null, here the empty string.
HSET(h, field, value) == [f \in DOMAIN h \cup {field} |-> IF f = field THEN value ELSE h[f]]
HGET(h, field) == IF field \in DOMAIN h THEN h[field] ELSE <<>>
EmptyHash == [f \in {} |-> <<>>]

\* ------------------------------------------------------------------- state
VARIABLES
    counter,          \* redis keys _id:<kind>
    route,            \* redis hashes _route:<kind>: field (id string) -> value (server id string)
    serverId,         \* this.id of each process, 0 while null
    hasAuth,          \* this.hasEvent('authenticate')
    rooms,            \* this.rooms of each process (ids resident)
    networkEntities,  \* this.networkEntities of each process (ids resident)
    users,            \* this.users of each process: user id -> connection of the User object, 0 absent
    socket,           \* per connection: "none" (not yet upgraded), "open", "closed" (socket = null)
    user,             \* per connection: the closure variable `user` (id of the bound User, NoUser)
    calls,            \* generateId frames suspended on the store
    policies,         \* 'authenticate' policy invocations that have not called back
    lookups,          \* _onMessage frames suspended on HGET
    link,             \* envelopes in flight on the inter-process link
    owner,            \* history: kind -> id -> process whose INCR produced the id (0 none)
    retCount,         \* history: kind -> id -> number of generateId calls that returned it
    out,              \* what the last step did (handlers fired, envelopes sent, forwards)
    ids,              \* NetworkEntities.ids of each registry
    index,            \* NetworkEntities.index of each registry (ids present)
    assigned,         \* history: the ids each registry assigned, in order
    players,          \* Players (the primary Map): ids of the players present
    playersByUser,    \* Players.playersByUser: user id -> player, NoPlayer absent
    playersByRoom,    \* Players.playersByRoom: room id -> player, NoPlayer absent
    made,             \* history: player id -> the user and room of the player (0 not yet made)
    gone,             \* history: the players whose 'destroy' has fired
    lastCallbackId,   \* PlayCanvasNetwork.lastCallbackId
    callbacks,        \* PlayCanvasNetwork.callbacks: the callbackIds that hold a callback
    taken,            \* history: the callbackIds _send assigned, in order
    answered,         \* history: the callbackIds for which a response has arrived
    invoked           \* history: callbackId -> number of invocations of its callback

\* The PlayNetwork server and its store.
pn == <<counter, route, serverId, hasAuth, rooms, networkEntities, users, socket, user,
        calls, policies, lookups, link, owner, retCount, out>>

\* The registries of a NetworkEntities object.
entities == <<ids, index, assigned>>

\* The classes beside the PlayNetwork server.
\* A Players registry.
registry == <<players, playersByUser, playersByRoom, made, gone>>

\* The client, PlayCanvasNetwork.
client == <<lastCallbackId, callbacks, taken, answered, invoked>>

libs == <<entities, registry, client>>

vars == <<pn, libs>>

store   == <<counter, route>>
locals  == <<rooms, networkEntities, users>>
session == <<socket, user>>
history == <<owner, retCount>>

PendingCalls == Cardinality(calls) + Cardinality(policies)
InFlight == Cardinality(lookups) + Cardinality(link)

NoOut == [act |-> "init", proc |-> 0, conn |-> 0, name |-> "", stype |-> "none", sid |-> 0,
          corr |-> NoCorr, sender |-> NoUser, reply |-> "none", handled |-> {},
          hget |-> FALSE, suspended |-> FALSE, fwd |-> {}, sent |-> <<>>, alloc |-> FALSE,
          closeCalled |-> FALSE, threw |-> FALSE, prevUser |-> NoUser, origin |-> NoUser,
          via |-> "socket", from |-> 0, state |-> "None", uid |-> NoUser,
          overtaken |-> FALSE]

\* ------------------------------------------------------- NetworkEntities
Registries == 1..NumRegistries

\* class NetworkEntities { ids = 0; index = new Map(); ... }
EntitiesInit ==
    /\ ids = [r \in Registries |-> 0]
    /\ index = [r \in Registries |-> {}]
    /\ assigned = [r \in Registries |-> <<>>]

\* create(script): const id = this.ids++; script.id = id; this.set(id, script.entity).
NE_Create(r) ==
    /\ ids[r] < MaxCreates
    /\ ids' = [ids EXCEPT ![r] = @ + 1]
    /\ index' = [index EXCEPT ![r] = @ \cup {ids[r]}]
    /\ assigned' = [assigned EXCEPT ![r] = Append(@, ids[r])]
    /\ UNCHANGED <<pn, registry, client>>

\* script.once('destroy', ...): this.index.delete(id).
NE_Destroy(r, id) ==
    /\ id \in index[r]
    /\ index' = [index EXCEPT ![r] = @ \ {id}]
    /\ UNCHANGED <<pn, ids, assigned, registry, client>>

\* --------------------------------------------------------------- Players
PlayerIds == 1..MaxPlayers

\* class Players extends Map { playersByUser = new Map(); playersByRoom = new Map(); }
PlayersInit ==
    /\ players = {}
    /\ playersByUser = [u \in Ids |-> NoPlayer]
    /\ playersByRoom = [r \in Ids |-> NoPlayer]
    /\ made = [i \in PlayerIds |-> [user |-> 0, room |-> 0]]
    /\ gone = {}

\* add(player), for a new player with the next id, of user u in room r: the three
\* Map.set calls, each replacing what the key held.
Players_Add(id, u, r) ==
    /\ made[id].user = 0
    /\ \A j \in PlayerIds : j < id => made[j].user # 0
    /\ players' = players \cup {id}
    /\ playersByUser' = [playersByUser EXCEPT ![u] = id]
    /\ playersByRoom' = [playersByRoom EXCEPT ![r] = id]
    /\ made' = [made EXCEPT ![id] = [user |-> u, room |-> r]]
    /\ UNCHANGED <<pn, entities, client, gone>>

\* The 'destroy' listener add() put on the player: the three Map.delete calls, by the
\* player's id, its user's id and its room's id.
Player_Destroy(id) ==
    /\ id \in players
    /\ players' = players \ {id}
    /\ playersByUser' = [playersByUser EXCEPT ![made[id].user] = NoPlayer]
    /\ playersByRoom' = [playersByRoom EXCEPT ![made[id].room] = NoPlayer]
    /\ gone' = gone \cup {id}
    /\ UNCHANGED <<pn, entities, client, made>>

getByUserId(userId) == playersByUser[userId]
getByRoomId(roomId) == playersByRoom[roomId]

\* ---------------------------------------------------- PlayCanvasNetwork (client)
CallbackIds == 0..(MaxRequests - 1)

\* constructor: this.lastCallbackId = 0; this.callbacks = new Map().
ClientInit ==
    /\ lastCallbackId = 0
    /\ callbacks = {}
    /\ taken = <<>>
    /\ answered = {}
    /\ invoked = [k \in CallbackIds |-> 0]

\* _send(name, data, roomId, callback) with a callback: msg.callbackId =
\* this.lastCallbackId; this.callbacks.set(this.lastCallbackId, callback);
\* this.lastCallbackId++. (Without a callback _send changes nothing of the client.)
Client_Send ==
    /\ lastCallbackId < MaxRequests
    /\ callbacks' = callbacks \cup {lastCallbackId}
    /\ taken' = Append(taken, lastCallbackId)
    /\ lastCallbackId' = lastCallbackId + 1
    /\ UNCHANGED <<pn, entities, registry, answered, invoked>>

\* socket.onmessage for a response with callbackId k: a response whose data has err is
\* logged and the listener returns; otherwise the callback under k, if there is one, is
\* invoked and the slot deleted.
Client_OnMessage(k, err) ==
    LET found == ~err /\ k \in callbacks IN
    /\ k \in CallbackIds /\ k < lastCallbackId
    /\ answered' = answered \cup {k}
    /\ invoked' = IF found THEN [invoked EXCEPT ![k] = @ + 1] ELSE invoked
    /\ callbacks' = IF found THEN callbacks \ {k} ELSE callbacks
    /\ UNCHANGED <<pn, entities, registry, lastCallbackId, taken>>

LibInit == EntitiesInit /\ PlayersInit /\ ClientInit

\* A process runs one event handler at a time, to completion. `out` holds what the
\* running turn did; the turn ends (EndTurn) before any other handler starts.
Idle == out = NoOut

EndTurn ==
    /\ ~Idle
    /\ out' = NoOut
    /\ UNCHANGED <<counter, route, serverId, hasAuth, rooms, networkEntities, users, socket,
                   user, calls, policies, lookups, link, owner, retCount>>

Init ==
    /\ counter = [k \in Kinds |-> 0]
    /\ route = [k \in Kinds |-> EmptyHash]
    /\ serverId = [p \in Procs |-> 0]
    /\ hasAuth \in BOOLEAN
    /\ rooms = [p \in Procs |-> {}]
    /\ networkEntities = [p \in Procs |-> {}]
    /\ users = [p \in Procs |-> [i \in Ids |-> 0]]
    /\ socket = [c \in Conns |-> "none"]
    /\ user = [c \in Conns |-> NoUser]
    /\ calls = {}
    /\ policies = {}
    /\ lookups = {}
    /\ link = {}
    /\ owner = [k \in Kinds |-> [i \in AllIds |-> 0]]
    /\ retCount = [k \in Kinds |-> [i \in AllIds |-> 0]]
    /\ out = NoOut
    /\ LibInit

\* ------------------------------------------------------------- generateId
\* (mutant) a read-then-write allocation whose write is lost: the value stays at 1.
INCR_Stale(n) == IF n = 0 THEN 1 ELSE n

\* redis INCR: one atomic step of the store, returning the incremented value.
INCR(n) == n + 1

\* (mutant) generateId returns without writing the routing entry.
AfterIncrNoRoute(kind) == "ret"

\* `if (type !== 'server') await HSET(...)`: where the frame goes after INCR.
AfterIncr(kind) == IF kind # "server" THEN "hset" ELSE "ret"

\* (mutant) HSET with its field and value swapped.
RouteEntrySwapped(f) == [field |-> ToStr(serverId[f.proc]), value |-> ToStr(f.id)]

\* HSET(`_route:${type}`, id, this.id): the field and the value of the routing entry.
RouteEntry(f) == [field |-> ToStr(f.id), value |-> ToStr(serverId[f.proc])]

Created == counter["room"] + counter["networkEntity"]

\* generateId(kind) is called by process p; the store runs INCR. The frame then waits
\* on the store: for HSET (pc "hset") or to resume its caller (pc "ret").
GenerateId(p, kind, purpose, c, corr) ==
    LET id == INCR(counter[kind]) IN
    /\ kind # "server" => counter[kind] < MaxId
    /\ kind \in EntityKinds => Created < MaxEntities
    /\ PendingCalls < MaxCalls
    /\ counter' = [counter EXCEPT ![kind] = id]
    /\ calls' = calls \cup {[proc |-> p, kind |-> kind, id |-> id, pc |-> AfterIncr(kind),
                             purpose |-> purpose, conn |-> c, corr |-> corr]}
    /\ owner' = [owner EXCEPT ![kind] = [i \in AllIds |-> IF i = id THEN p ELSE @[i]]]
    /\ UNCHANGED <<route, retCount>>

\* The frame resumes after INCR and the store runs HSET _route:<kind> id this.id.
GenIdHSet(f) ==
    /\ Idle
    /\ f.pc = "hset"
    /\ route' = [route EXCEPT ![f.kind] = HSET(@, RouteEntry(f).field, RouteEntry(f).value)]
    /\ calls' = (calls \ {f}) \cup {[f EXCEPT !.pc = "ret"]}
    /\ out' = NoOut
    /\ UNCHANGED <<counter, serverId, hasAuth, locals, session, policies, lookups, link, history>>

Returned(f) == [retCount EXCEPT ![f.kind] = [i \in AllIds |-> IF i = f.id THEN @[i] + 1 ELSE @[i]]]

\* start(): this.id = await this.generateId('server')
Start(p) ==
    /\ Idle
    /\ serverId[p] = 0
    /\ \A f \in calls : ~(f.proc = p /\ f.purpose = "start")
    /\ GenerateId(p, "server", "start", 0, NoCorr)
    /\ out' = NoOut
    /\ UNCHANGED <<serverId, hasAuth, locals, session, policies, lookups, link>>

StartReturn(f) ==
    /\ Idle
    /\ f.pc = "ret" /\ f.purpose = "start"
    /\ serverId' = [serverId EXCEPT ![f.proc] = f.id]
    /\ calls' = calls \ {f}
    /\ retCount' = Returned(f)
    /\ out' = NoOut
    /\ UNCHANGED <<store, hasAuth, locals, session, policies, lookups, link, owner>>

\* --------------------------------------------------- rooms, network entities
\* Creation of a room / network entity on process p: the id comes from generateId and
\* the entity is then put into the local registry of p.
CreateEntity(p, kind) ==
    /\ Idle
    /\ serverId[p] # 0
    /\ GenerateId(p, kind, "create", 0, NoCorr)
    /\ out' = NoOut
    /\ UNCHANGED <<serverId, hasAuth, locals, session, policies, lookups, link>>

CreateReturn(f) ==
    /\ Idle
    /\ f.pc = "ret" /\ f.purpose = "create"
    /\ rooms' = IF f.kind = "room"
                THEN [rooms EXCEPT ![f.proc] = @ \cup {f.id}] ELSE rooms
    /\ networkEntities' = IF f.kind = "networkEntity"
                          THEN [networkEntities EXCEPT ![f.proc] = @ \cup {f.id}]
                          ELSE networkEntities
    /\ calls' = calls \ {f}
    /\ retCount' = Returned(f)
    /\ out' = NoOut
    /\ UNCHANGED <<store, serverId, hasAuth, users, session, policies, lookups, link, owner>>

\* Destruction of an entity: it leaves the local registry; its routing entry stays.
DestroyEntity(p, kind, id) ==
    /\ Idle
    /\ kind = "room" => id \in rooms[p]
    /\ kind = "networkEntity" => id \in networkEntities[p]
    /\ rooms' = IF kind = "room" THEN [rooms EXCEPT ![p] = @ \ {id}] ELSE rooms
    /\ networkEntities' = IF kind = "networkEntity"
                          THEN [networkEntities EXCEPT ![p] = @ \ {id}] ELSE networkEntities
    /\ out' = NoOut
    /\ UNCHANGED <<store, serverId, hasAuth, users, session, calls, policies, lookups, link,
                   history>>

Resident(p, kind, id) ==
    CASE kind = "room" -> id \in rooms[p]
      [] kind = "networkEntity" -> id \in networkEntities[p]
      [] kind = "user" -> id \in Ids /\ users[p][id] # 0
      [] OTHER -> FALSE

\* ------------------------------------------------------ connection session
\* The session state the code keeps implicitly in `user`, `socket` and its pending
\* authentication continuations.
AuthPending(c) ==
    \/ \E f \in calls : f.purpose = "auth" /\ f.conn = c
    \/ \E t \in policies : t.conn = c

SessionState(c) ==
    CASE socket[c] = "none" -> "None"
      [] socket[c] = "closed" -> "Closed"
      [] user[c] # NoUser -> "Authenticated"
      [] AuthPending(c) -> "Authenticating"
      [] OTHER -> "Connecting"

\* settings.server.on('upgrade'): a connection is accepted by a started process.
Upgrade(c) ==
    /\ Idle
    /\ socket[c] = "none"
    /\ serverId[ConnProc(c)] # 0
    /\ socket' = [socket EXCEPT ![c] = "open"]
    /\ out' = NoOut
    /\ UNCHANGED <<store, serverId, hasAuth, locals, user, calls, policies, lookups, link,
                   history>>

\* (mutant) an error without a correlation id is not reported.
ShouldSendIdOnly(err, corr) == Truthy(corr)

\* The reply callback of socket.on('message'): whether it sends, and what.
ShouldSend(err, corr) == err \/ Truthy(corr)

Envelope(name, err, value, corr) ==
    [name |-> name, data |-> [err |-> err, value |-> IF err THEN 0 ELSE value], id |-> corr]

\* callback(err, data) on connection c: the envelopes sent, and whether socket.send threw
\* because `socket` is already null.
Callback(c, name, err, value, corr) ==
    IF ~ShouldSend(err, corr) THEN [sent |-> <<>>, threw |-> FALSE]
    ELSE IF socket[c] = "open" THEN [sent |-> <<Envelope(name, err, value, corr)>>, threw |-> FALSE]
    ELSE [sent |-> <<>>, threw |-> TRUE]

\* connectUser(id): user = new User(id, socket); this.users.add(user); callback(null, user.id)
ConnectUser(c, id, corr, act) ==
    LET cb == Callback(c, "_authenticate", FALSE, id, corr) IN
    /\ user' = [user EXCEPT ![c] = id]
    /\ users' = [users EXCEPT ![ConnProc(c)] = [i \in Ids |-> IF i = id THEN c ELSE @[i]]]
    /\ out' = [NoOut EXCEPT !.act = act, !.proc = ConnProc(c), !.conn = c, !.corr = corr,
                            !.sent = cb.sent, !.threw = cb.threw, !.prevUser = user[c],
                            !.uid = id]

\* socket.on('message') with name '_authenticate', then socket.on('_authenticate').
Authenticate(c, corr) ==
    /\ Idle
    /\ socket[c] = "open"
    /\ out' = [NoOut EXCEPT !.act = "authenticate", !.proc = ConnProc(c), !.conn = c,
                            !.name = "_authenticate", !.corr = corr, !.alloc = ~hasAuth,
                            !.suspended = TRUE,
                            !.prevUser = user[c], !.state = SessionState(c)]
    /\ IF ~hasAuth
       THEN /\ GenerateId(ConnProc(c), "user", "auth", c, corr)
            /\ UNCHANGED policies
       ELSE /\ PendingCalls < MaxCalls
            /\ policies' = policies \cup
                   {[conn |-> c, corr |-> corr,
                     n |-> Cardinality({t \in policies : t.conn = c})]}
            /\ UNCHANGED <<store, calls, history>>
    /\ UNCHANGED <<serverId, hasAuth, locals, session, lookups, link>>

\* generateId('user') returns into socket.on('_authenticate'): connectUser(id).
AuthReturn(f) ==
    /\ Idle
    /\ f.pc = "ret" /\ f.purpose = "auth"
    /\ ConnectUser(f.conn, f.id, f.corr, "connectUser")
    /\ calls' = calls \ {f}
    /\ retCount' = Returned(f)
    /\ UNCHANGED <<store, serverId, hasAuth, rooms, networkEntities, socket, policies, lookups,
                   link, owner>>

\* The 'authenticate' policy calls back: with an error, or with a user id.
PolicyCallback(t, err, userId) ==
    /\ Idle
    /\ t \in policies
    /\ policies' = policies \ {t}
    /\ IF err
       THEN LET cb == Callback(t.conn, "_authenticate", TRUE, 0, t.corr) IN
            /\ out' = [NoOut EXCEPT !.act = "authFailed", !.proc = ConnProc(t.conn),
                                    !.conn = t.conn, !.corr = t.corr, !.sent = cb.sent,
                                    !.threw = cb.threw, !.closeCalled = ~cb.threw,
                                    !.prevUser = user[t.conn]]
            /\ UNCHANGED <<user, users>>
       ELSE ConnectUser(t.conn, userId, t.corr, "connectUser")
    /\ UNCHANGED <<store, serverId, hasAuth, rooms, networkEntities, socket, calls, lookups,
                   link, history>>

\* socket.on('close'): the bound User is destroyed (it leaves this.users); socket = null.
Close(c) ==
    /\ Idle
    /\ socket[c] = "open"
    /\ socket' = [socket EXCEPT ![c] = "closed"]
    /\ users' = IF user[c] # NoUser
                THEN [users EXCEPT ![ConnProc(c)] =
                         [i \in Ids |-> IF i = user[c] THEN 0 ELSE @[i]]]
                ELSE users
    /\ out' = [NoOut EXCEPT !.act = "close", !.proc = ConnProc(c), !.conn = c,
                            !.prevUser = user[c]]
    /\ UNCHANGED <<store, serverId, hasAuth, rooms, networkEntities, user, calls, policies,
                   lookups, link, history>>

\* ------------------------------------------------------ message dispatcher
\* The synchronous part of _onMessage(msg, user, callback) on process p, up to its first
\* await: whether the name is reserved, the handlers fired (each as [target, id, sender])
\* and whether the frame suspends: on `await this.users.get(...)` for scope 'user', on
\* HGET for a room or network entity that is not resident. Scope 'server' resolves to
\* the PlayNetwork object itself, which has no handler for a name that failed hasEvent.
\* (mutant) _onMessage without the `return` after the global handler: the scope is
\* resolved as well.
OnMessageGlobalContinues(p, name, stype, sid, sender) ==
    LET global == IF name \in GlobalEvents
                  THEN {[target |-> "global", id |-> 0, sender |-> sender]} ELSE {}
    IN
    IF name \in ReservedEvents
    THEN [reserved |-> TRUE, handled |-> {}, suspended |-> FALSE]
    ELSE IF stype = "user"
    THEN [reserved |-> FALSE, handled |-> global, suspended |-> TRUE]
    ELSE IF stype \in EntityKinds /\ Resident(p, stype, sid)
    THEN [reserved |-> FALSE, suspended |-> FALSE,
          handled |-> global \cup {[target |-> stype, id |-> sid, sender |-> sender]}]
    ELSE [reserved |-> FALSE, handled |-> global, suspended |-> stype \in EntityKinds]

\* (mutant) _onMessage without the reserved-name test of its first line.
OnMessageNoReserved(p, name, stype, sid, sender) ==
    IF name \in GlobalEvents
    THEN [reserved |-> FALSE, suspended |-> FALSE,
          handled |-> {[target |-> "global", id |-> 0, sender |-> sender]}]
    ELSE IF stype = "user"
    THEN [reserved |-> FALSE, handled |-> {}, suspended |-> TRUE]
    ELSE IF stype \in EntityKinds /\ Resident(p, stype, sid)
    THEN [reserved |-> FALSE, suspended |-> FALSE,
          handled |-> {[target |-> stype, id |-> sid, sender |-> sender]}]
    ELSE [reserved |-> FALSE, handled |-> {}, suspended |-> stype \in EntityKinds]

\* (mutant) the registries of rooms and network entities are read behind an await, as
\* the registry of users is.
OnMessageEntityAwaits(p, name, stype, sid, sender) ==
    IF name \in ReservedEvents
    THEN [reserved |-> TRUE, handled |-> {}, suspended |-> FALSE]
    ELSE IF name \in GlobalEvents
    THEN [reserved |-> FALSE, suspended |-> FALSE,
          handled |-> {[target |-> "global", id |-> 0, sender |-> sender]}]
    ELSE [reserved |-> FALSE, handled |-> {}, suspended |-> stype \in EntityKinds \cup {"user"}]

OnMessage(p, name, stype, sid, sender) ==
    IF name \in ReservedEvents
    THEN [reserved |-> TRUE, handled |-> {}, suspended |-> FALSE]
    ELSE IF name \in GlobalEvents
    THEN [reserved |-> FALSE, suspended |-> FALSE,
          handled |-> {[target |-> "global", id |-> 0, sender |-> sender]}]
    ELSE IF stype = "user"
    THEN [reserved |-> FALSE, handled |-> {}, suspended |-> TRUE]
    ELSE IF stype \in EntityKinds /\ Resident(p, stype, sid)
    THEN [reserved |-> FALSE, suspended |-> FALSE,
          handled |-> {[target |-> stype, id |-> sid, sender |-> sender]}]
    ELSE [reserved |-> FALSE, handled |-> {}, suspended |-> stype \in EntityKinds]

\* The messages a client can send: scope ids for a scope type (of the room and network
\* entity ids INCR has not produced yet, which all miss everywhere, the lowest stands for
\* all), and the ways the fired handler can use its callback (a message that fires
\* nothing has no handler to reply; its id is never read, so one id stands for all).
ScopeIds(stype) ==
    CASE stype \in {"none", "server"} -> {0}
      [] stype \in EntityKinds -> {i \in Ids : i <= counter[stype] + 1}
      [] OTHER -> Ids

\* A handler can fire for the message: at once, or once users.get has resolved.
MayFire(c, name, stype, sid) ==
    LET d == OnMessage(ConnProc(c), name, stype, sid, user[c]) IN
    d.handled # {} \/ (d.suspended /\ stype = "user" /\ Resident(ConnProc(c), "user", sid))

WillCall(c, name, stype, sid, reply) ==
    \/ OnMessage(ConnProc(c), name, stype, sid, user[c]).reserved
    \/ MayFire(c, name, stype, sid) /\ reply # "none"

RepliesOf(c, name, stype, sid) ==
    IF MayFire(c, name, stype, sid) THEN Replies ELSE {"none"}

CorrIdsOf(c, name, stype, sid, reply) ==
    IF WillCall(c, name, stype, sid, reply) THEN CorrIds ELSE {NoCorr}

Highest(S) == {x \in S : \A y \in S : y <= x}

\* An _onMessage frame suspended on HGET (room, networkEntity) or on users.get (user).
\* A user frame keeps what its resumption needs: the connection of its callback, the
\* correlation id and what the handler will do. origin and overtaken are history
\* fields: the user who sent the message, and whether a handler has fired for a
\* message that arrived later on the same connection.
Frame(p, name, kind, sid, via, origin, c, corr, reply) ==
    [proc |-> p, name |-> name, kind |-> kind, sid |-> sid, via |-> via, origin |-> origin,
     conn |-> IF kind = "user" THEN c ELSE 0,
     corr |-> IF kind = "user" THEN corr ELSE NoCorr,
     reply |-> IF kind = "user" THEN reply ELSE "none",
     overtaken |-> FALSE]

\* The frames after a handler fired for a later message of connection c.
Overtake(c) ==
    {IF l.kind = "user" /\ l.conn = c THEN [l EXCEPT !.overtaken = TRUE] ELSE l : l \in lookups}

\* socket.on('message') for a name other than '_authenticate': _onMessage runs with the
\* closure's `user`. `reply` is what the fired handler does with the callback. Nothing
\* between the handler and the process catches: when the handler throws, the async
\* listener rejects (process.on('unhandledRejection') logs it) and nothing is sent.
Message(c, name, stype, sid, corr, reply) ==
    LET p  == ConnProc(c)
        d  == OnMessage(p, name, stype, sid, user[c])
        called == d.reserved \/ (d.handled # {} /\ reply \in {"ok", "err"})
        cb == IF called THEN Callback(c, name, d.reserved \/ reply = "err", 0, corr)
                        ELSE [sent |-> <<>>, threw |-> FALSE]
    IN
    /\ Idle
    /\ socket[c] = "open"
    /\ d.suspended => InFlight < MaxInFlight
    /\ lookups' = (IF d.handled # {} THEN Overtake(c) ELSE lookups) \cup
                  (IF d.suspended THEN {Frame(p, name, stype, sid, "socket", user[c], c, corr, reply)}
                                  ELSE {})
    /\ out' = [NoOut EXCEPT !.act = "message", !.proc = p, !.conn = c, !.name = name,
                            !.stype = stype, !.sid = sid, !.sender = user[c],
                            !.corr = corr,
                            !.reply = IF d.reserved THEN "reserved" ELSE reply,
                            !.handled = d.handled, !.suspended = d.suspended,
                            !.sent = cb.sent,
                            !.threw = cb.threw \/ (d.handled # {} /\ reply = "throw"),
                            !.origin = user[c], !.state = SessionState(c)]
    /\ UNCHANGED <<store, serverId, hasAuth, locals, session, calls, policies, link, history>>

\* this.server.send('_message', msg, serverId, this.id): the envelope put on the link.
\* origin is a history field: the user who sent the message on its connection.
Forward(l, to) ==
    [to |-> to, from |-> serverId[l.proc], name |-> l.name, kind |-> l.kind, sid |-> l.sid,
     origin |-> l.origin]

\* (mutant) the `if (!serverId) return` guard is missing.
ForwardsAlways(l, to) == {Forward(l, to)}

\* `if (!serverId) return; this.server.send(...)`: the envelopes a resumed frame sends.
Forwards(l, to) == IF ~Truthy(to) THEN {} ELSE {Forward(l, to)}

\* The frame resumes with the reply of HGET _route:<kind> <id>; target is still null, so
\* nothing is fired after the forward.
LookupResume(l) ==
    LET to == ParseInt(HGET(route[l.kind], ToStr(l.sid))) IN
    /\ Idle
    /\ l \in lookups /\ l.kind \in EntityKinds
    /\ lookups' = lookups \ {l}
    /\ link' = link \cup Forwards(l, to)
    /\ out' = [NoOut EXCEPT !.act = "lookup", !.proc = l.proc, !.name = l.name,
                            !.stype = l.kind, !.sid = l.sid, !.hget = TRUE,
                            !.fwd = Forwards(l, to), !.origin = l.origin, !.via = l.via]
    /\ UNCHANGED <<store, serverId, hasAuth, locals, session, calls, policies, history>>

\* `await this.users.get(msg.scope.id)` resolves with the User in the local registry, or
\* with none; then target?.fire(msg.name, user, msg.data, callback).
UserGetResume(l) ==
    LET handled == IF Resident(l.proc, "user", l.sid)
                   THEN {[target |-> "user", id |-> l.sid, sender |-> l.origin]} ELSE {}
        cb == IF handled # {} /\ l.reply \in {"ok", "err"}
              THEN Callback(l.conn, l.name, l.reply = "err", 0, l.corr)
              ELSE [sent |-> <<>>, threw |-> FALSE]
    IN
    /\ Idle
    /\ l \in lookups /\ l.kind = "user"
    /\ lookups' = lookups \ {l}
    /\ out' = [NoOut EXCEPT !.act = "userget", !.proc = l.proc, !.conn = l.conn,
                            !.name = l.name, !.stype = "user", !.sid = l.sid,
                            !.sender = l.origin, !.corr = l.corr, !.reply = l.reply,
                            !.handled = handled, !.sent = cb.sent,
                            !.threw = cb.threw \/ (handled # {} /\ l.reply = "throw"),
                            !.origin = l.origin, !.state = SessionState(l.conn),
                            !.overtaken = handled # {} /\ l.overtaken]
    /\ UNCHANGED <<store, serverId, hasAuth, locals, session, calls, policies, link, history>>

\* The sender a receiving process reconstitutes from an envelope: the envelope of
\* Forward carries the message and the two process ids, and no user.
EnvelopeSender(e) == NoUser

\* The process named by the envelope receives it and re-enters _onMessage.
LinkDeliver(e) ==
    \E q \in Procs :
        LET d == OnMessage(q, e.name, e.kind, e.sid, EnvelopeSender(e)) IN
        /\ Idle
        /\ e \in link
        /\ serverId[q] = e.to
        /\ link' = link \ {e}
        /\ lookups' = IF d.suspended
                      THEN lookups \cup {Frame(q, e.name, e.kind, e.sid, "link", e.origin,
                                                0, NoCorr, "none")}
                      ELSE lookups
        /\ out' = [NoOut EXCEPT !.act = "deliver", !.proc = q, !.name = e.name,
                                !.stype = e.kind, !.sid = e.sid,
                                !.sender = EnvelopeSender(e), !.handled = d.handled,
                                !.suspended = d.suspended, !.origin = e.origin,
                                !.via = "link", !.from = e.from]
        /\ UNCHANGED <<store, serverId, hasAuth, locals, session, calls, policies, history>>

\* ------------------------------------------------------------ specifications
\* The whole system, from construction.
Next ==
    /\ UNCHANGED libs
    /\ \/ \E p \in Procs : Start(p)
       \/ \E f \in calls : GenIdHSet(f)
       \/ \E f \in calls : StartReturn(f)
       \/ \E p \in Procs, kind \in EntityKinds : CreateEntity(p, kind)
       \/ \E f \in calls : CreateReturn(f)
       \/ \E p \in Procs, kind \in EntityKinds, id \in Ids : DestroyEntity(p, kind, id)
       \/ \E c \in Conns : Upgrade(c)
       \/ \E c \in Conns, corr \in CorrIds : Authenticate(c, corr)
       \/ \E f \in calls : AuthReturn(f)
       \/ \E t \in policies, err \in BOOLEAN, userId \in Ids : PolicyCallback(t, err, userId)
       \/ \E c \in Conns : Close(c)
       \/ \E c \in Conns, name \in Names, stype \in ScopeTypes :
             \E sid \in ScopeIds(stype) :
                \E reply \in RepliesOf(c, name, stype, sid) :
                   \E corr \in CorrIdsOf(c, name, stype, sid, reply) :
                      Message(c, name, stype, sid, corr, reply)
       \/ \E l \in lookups : LookupResume(l)
       \/ \E l \in lookups : UserGetResume(l)
       \/ \E e \in link : LinkDeliver(e)
       \/ EndTurn

Spec == Init /\ [][Next]_vars

\* Identifier allocation: every caller of generateId (start, entity creation, the
\* first authentication of a connection without a policy), the frames interleaved at
\* the store round trips.
NextAlloc ==
    /\ UNCHANGED libs
    /\ \/ \E p \in Procs : Start(p)
       \/ \E f \in calls : GenIdHSet(f)
       \/ \E f \in calls : StartReturn(f)
       \/ \E p \in Procs, kind \in EntityKinds : CreateEntity(p, kind)
       \/ \E f \in calls : CreateReturn(f)
       \/ \E c \in Conns : Upgrade(c)
       \/ \E c \in Conns : SessionState(c) = "Connecting" /\ Authenticate(c, NoCorr)
       \/ \E f \in calls : AuthReturn(f)
       \/ EndTurn

InitAlloc == Init /\ ~hasAuth

SpecAlloc == InitAlloc /\ [][NextAlloc]_vars

\* A started cluster with its connections open: every process has its server id.
InitStarted ==
    /\ counter = [k \in Kinds |-> IF k = "server" THEN NumProcs ELSE 0]
    /\ route = [k \in Kinds |-> EmptyHash]
    /\ serverId = [p \in Procs |-> p]
    /\ hasAuth \in BOOLEAN
    /\ rooms = [p \in Procs |-> {}]
    /\ networkEntities = [p \in Procs |-> {}]
    /\ users = [p \in Procs |-> [i \in Ids |-> 0]]
    /\ socket = [c \in Conns |-> "open"]
    /\ user = [c \in Conns |-> NoUser]
    /\ calls = {}
    /\ policies = {}
    /\ lookups = {}
    /\ link = {}
    /\ owner = [k \in Kinds |-> [i \in AllIds |-> IF k = "server" /\ i \in Procs THEN i ELSE 0]]
    /\ retCount = [k \in Kinds |->
                      [i \in AllIds |-> IF k = "server" /\ i \in Procs THEN 1 ELSE 0]]
    /\ out = NoOut
    /\ LibInit

\* Routing of messages scoped to rooms and network entities: creation (one entity at a
\* time; concurrent allocations are those of NextAlloc) and destruction of the
\* entities, and the dispatcher with its store lookups and forwards.
NextRoute ==
    /\ UNCHANGED libs
    /\ \/ \E p \in Procs, kind \in EntityKinds : calls = {} /\ CreateEntity(p, kind)
       \/ \E f \in calls : GenIdHSet(f)
       \/ \E f \in calls : CreateReturn(f)
       \/ \E p \in Procs, kind \in EntityKinds, id \in Ids : DestroyEntity(p, kind, id)
       \/ \E c \in Conns, name \in Names \ GlobalEvents, stype \in EntityKinds :
             \E sid \in ScopeIds(stype) :
                \E reply \in RepliesOf(c, name, stype, sid) \ {"err", "throw"} :
                   \E corr \in Highest(CorrIdsOf(c, name, stype, sid, reply)) :
                      InFlight < MaxInFlight /\ Message(c, name, stype, sid, corr, reply)
       \/ \E l \in lookups : LookupResume(l)
       \/ \E e \in link : LinkDeliver(e)
       \/ EndTurn

\* The started cluster after every connection has authenticated with no policy
\* registered: connection c is bound to the user id c that generateId('user') returned
\* to its process, the user is in the registry and has its routing entry.
RECURSIVE RouteOfUsers(_)
RouteOfUsers(n) ==
    IF n = 0 THEN EmptyHash ELSE HSET(RouteOfUsers(n - 1), ToStr(n), ToStr(ConnProc(n)))

InitRoute ==
    /\ counter = [k \in Kinds |-> CASE k = "server" -> NumProcs
                                    [] k = "user" -> NumConns
                                    [] OTHER -> 0]
    /\ route = [k \in Kinds |-> IF k = "user" THEN RouteOfUsers(NumConns) ELSE EmptyHash]
    /\ serverId = [p \in Procs |-> p]
    /\ hasAuth = FALSE
    /\ rooms = [p \in Procs |-> {}]
    /\ networkEntities = [p \in Procs |-> {}]
    /\ users = [p \in Procs |-> [i \in Ids |-> IF i \in Conns /\ ConnProc(i) = p THEN i ELSE 0]]
    /\ socket = [c \in Conns |-> "open"]
    /\ user = [c \in Conns |-> c]
    /\ calls = {}
    /\ policies = {}
    /\ lookups = {}
    /\ link = {}
    /\ owner = [k \in Kinds |-> [i \in AllIds |->
                   CASE k = "server" /\ i \in Procs -> i
                     [] k = "user" /\ i \in Conns -> ConnProc(i)
                     [] OTHER -> 0]]
    /\ retCount = [k \in Kinds |-> [i \in AllIds |->
                      IF (k = "server" /\ i \in Procs) \/ (k = "user" /\ i \in Conns)
                      THEN 1 ELSE 0]]
    /\ out = NoOut
    /\ LibInit

SpecRoute == InitRoute /\ [][NextRoute]_vars

\* Sessions: authentication (with and without a policy) and close, interleaved at the
\* store round trips and at the policy callback.
NextSession ==
    /\ UNCHANGED libs
    /\ \/ \E f \in calls : GenIdHSet(f)
       \/ \E c \in Conns : Authenticate(c, NoCorr)
       \/ \E f \in calls : AuthReturn(f)
       \/ \E t \in policies, err \in BOOLEAN, userId \in Ids : PolicyCallback(t, err, userId)
       \/ \E c \in Conns : Close(c)
       \/ EndTurn

SpecSession == InitStarted /\ [][NextSession]_vars

\* The scopes with which a message of the given name is dispatched without an await:
\* none and server, and every scope for a reserved or globally handled name.
SyncScopes(name) ==
    {t \in ScopeTypes : t \in EntityKinds \cup {"user"} =>
                            name \in ReservedEvents \cup GlobalEvents}

\* Replies: the messages the receiving process dispatches without suspending
\* (reserved names, global handlers, scopes none / server), in every
\* authentication state of a connection that authenticates with no policy registered.
NextReply ==
    /\ UNCHANGED libs
    /\ \/ \E f \in calls : GenIdHSet(f)
       \/ \E c \in Conns : Authenticate(c, NoCorr)
       \/ \E f \in calls : AuthReturn(f)
       \/ \E c \in Conns, name \in Names :
             \E stype \in SyncScopes(name) :
                \E sid \in ScopeIds(stype) :
                   \E reply \in RepliesOf(c, name, stype, sid) :
                      \E corr \in CorrIdsOf(c, name, stype, sid, reply) :
                         Message(c, name, stype, sid, corr, reply)
       \/ EndTurn

InitReply == InitStarted /\ ~hasAuth

SpecReply == InitReply /\ [][NextReply]_vars

\* Messages scoped to users. One connection per process, each authenticated with no
\* policy registered: connection p of process p is bound to user p, which is in the
\* registry of p and has its routing entry.
ProcConns == Procs

RECURSIVE RouteOfProcUsers(_)
RouteOfProcUsers(n) ==
    IF n = 0 THEN EmptyHash ELSE HSET(RouteOfProcUsers(n - 1), ToStr(n), ToStr(n))

InitUsers ==
    /\ counter = [k \in Kinds |-> IF k \in {"server", "user"} THEN NumProcs ELSE 0]
    /\ route = [k \in Kinds |-> IF k = "user" THEN RouteOfProcUsers(NumProcs) ELSE EmptyHash]
    /\ serverId = [p \in Procs |-> p]
    /\ hasAuth = FALSE
    /\ rooms = [p \in Procs |-> {}]
    /\ networkEntities = [p \in Procs |-> {}]
    /\ users = [p \in Procs |-> [i \in Ids |-> IF i = p THEN p ELSE 0]]
    /\ socket = [c \in ProcConns |-> "open"]
    /\ user = [c \in ProcConns |-> c]
    /\ calls = {}
    /\ policies = {}
    /\ lookups = {}
    /\ link = {}
    /\ owner = [k \in Kinds |-> [i \in AllIds |->
                   IF k \in {"server", "user"} /\ i \in Procs THEN i ELSE 0]]
    /\ retCount = [k \in Kinds |-> [i \in AllIds |->
                      IF k \in {"server", "user"} /\ i \in Procs THEN 1 ELSE 0]]
    /\ out = NoOut
    /\ LibInit

NextUsers ==
    /\ UNCHANGED libs
    /\ \/ \E c \in ProcConns, name \in Names, sid \in Ids :
             \E reply \in RepliesOf(c, name, "user", sid) :
                \E corr \in CorrIdsOf(c, name, "user", sid, reply) :
                   Message(c, name, "user", sid, corr, reply)
       \/ \E l \in lookups : UserGetResume(l)
       \/ \E c \in ProcConns : Close(c)
       \/ EndTurn

SpecUsers == InitUsers /\ [][NextUsers]_vars

\* Order of the handlers of one connection. The cluster of InitUsers in which process 1
\* has created room 1: the room is in its registry and has its routing entry.
InitOrder ==
    /\ counter = [k \in Kinds |-> CASE k \in {"server", "user"} -> NumProcs
                                    [] k = "room" -> 1
                                    [] OTHER -> 0]
    /\ route = [k \in Kinds |-> CASE k = "user" -> RouteOfProcUsers(NumProcs)
                                  [] k = "room" -> HSET(EmptyHash, ToStr(1), ToStr(1))
                                  [] OTHER -> EmptyHash]
    /\ serverId = [p \in Procs |-> p]
    /\ hasAuth = FALSE
    /\ rooms = [p \in Procs |-> IF p = 1 THEN {1} ELSE {}]
    /\ networkEntities = [p \in Procs |-> {}]
    /\ users = [p \in Procs |-> [i \in Ids |-> IF i = p THEN p ELSE 0]]
    /\ socket = [c \in ProcConns |-> "open"]
    /\ user = [c \in ProcConns |-> c]
    /\ calls = {}
    /\ policies = {}
    /\ lookups = {}
    /\ link = {}
    /\ owner = [k \in Kinds |-> [i \in AllIds |->
                   CASE k \in {"server", "user"} /\ i \in Procs -> i
                     [] k = "room" /\ i = 1 -> 1
                     [] OTHER -> 0]]
    /\ retCount = [k \in Kinds |-> [i \in AllIds |->
                      IF (k \in {"server", "user"} /\ i \in Procs) \/ (k = "room" /\ i = 1)
                      THEN 1 ELSE 0]]
    /\ out = NoOut
    /\ LibInit

\* The messages of a connection whose target, if any, is in the registries of its
\* process: no scope, server, user, and the rooms resident there.
NextOrder ==
    /\ UNCHANGED libs
    /\ \/ \E c \in ProcConns, name \in Names \ ReservedEvents,
             stype \in {"none", "server", "user", "room"} :
             \E sid \in ScopeIds(stype) :
                \E reply \in RepliesOf(c, name, stype, sid) \cap {"none", "ok"} :
                   \E corr \in Highest(CorrIdsOf(c, name, stype, sid, reply)) :
                      /\ stype = "room" => Resident(ConnProc(c), stype, sid)
                      /\ Message(c, name, stype, sid, corr, reply)
       \/ \E l \in lookups : UserGetResume(l)
       \/ EndTurn

SpecOrder == InitOrder /\ [][NextOrder]_vars

\* Network entities created and destroyed in the registries of several rooms.
NextEntities ==
    \/ \E r \in Registries : NE_Create(r)
    \/ \E r \in Registries, id \in 0..(MaxCreates - 1) : NE_Destroy(r, id)

SpecEntities == InitAlloc /\ [][NextEntities]_vars

\* Players added to and destroyed in one Players registry. A player is a user in a
\* room: players share users and rooms, and a user has at most one player in a room.
NextPlayers ==
    \/ \E id \in PlayerIds, u \in Ids, r \in Ids :
          /\ \A q \in players : made[q] # [user |-> u, room |-> r]
          /\ Players_Add(id, u, r)
    \/ \E id \in PlayerIds : Player_Destroy(id)

SpecPlayers == InitAlloc /\ [][NextPlayers]_vars

\* One client: requests sent with a callback, and the responses to them, each with a
\* result or with an error, in any order.
NextClient ==
    \/ Client_Send
    \/ \E k \in CallbackIds, err \in BOOLEAN : Client_OnMessage(k, err)

SpecClient == InitAlloc /\ [][NextClient]_vars

\* ==================================================================== claims
IdsInFlight(k) == {f.id : f \in {g \in calls : g.kind = k}}
IdsReturned(k) == {i \in AllIds : retCount[k][i] > 0}
Lookup(k, id) == ParseInt(HGET(route[k], ToStr(id)))

\* C1: for every kind, the ids generateId hands out under any interleaving of the
\* calls of all processes are pairwise distinct (no id is returned twice, no two frames
\* in flight hold the same id, no frame holds an id already returned) and form the
\* range 1..n with nothing skipped: the ids returned or in flight are exactly
\* 1..counter, so once the calls have returned the ids returned are exactly 1..n.
C1_DistinctContiguousIds ==
    \A k \in Kinds :
        /\ \A i \in AllIds : retCount[k][i] <= 1
        /\ \A f, g \in calls : (f.kind = k /\ g.kind = k /\ f # g) => f.id # g.id
        /\ IdsInFlight(k) \cap IdsReturned(k) = {}
        /\ IdsInFlight(k) \cup IdsReturned(k) = 1..counter[k]

\* Two processes have generateId calls of one kind in flight at once.
C1_Witness ==
    \E f, g \in calls : f.kind = g.kind /\ f.proc # g.proc

\* C2: when generateId is about to return an id of a kind other than 'server' (its
\* frame is past HSET), and for every such id a caller holds, the routing table maps
\* (kind, id) to the allocating process; no routing entry exists for kind 'server'.
C2_RoutedBeforeReturn ==
    /\ \A f \in calls : (f.pc = "ret" /\ f.kind # "server") =>
           HGET(route[f.kind], ToStr(f.id)) = ToStr(serverId[f.proc])
    /\ \A k \in Kinds \ {"server"} : \A i \in IdsReturned(k) :
           owner[k][i] # 0 /\ Lookup(k, i) = serverId[owner[k][i]]
    /\ DOMAIN route["server"] = {}

\* A caller holds an id of a non-server kind and a process holds its server id.
C2_Witness ==
    /\ \E k \in Kinds \ {"server"} : IdsReturned(k) # {}
    /\ IdsReturned("server") # {}

EntityScoped == out.stype \in EntityKinds /\ out.name \notin GlobalEvents
Arrival == out.act \in {"message", "deliver"} /\ EntityScoped
Resumed == out.act = "lookup" /\ EntityScoped

DispatchRule ==
    /\ (Arrival /\ Resident(out.proc, out.stype, out.sid)) =>
           /\ out.handled = {[target |-> out.stype, id |-> out.sid, sender |-> out.sender]}
           /\ ~out.suspended /\ ~out.hget /\ out.fwd = {}
    /\ (Arrival /\ ~Resident(out.proc, out.stype, out.sid)) =>
           /\ out.handled = {} /\ out.fwd = {} /\ out.sent = <<>>
           /\ out.suspended
    /\ (Resumed /\ Truthy(Lookup(out.stype, out.sid))
                /\ Lookup(out.stype, out.sid) # serverId[out.proc]) =>
           /\ out.handled = {} /\ out.sent = <<>>
           /\ Cardinality(out.fwd) = 1
           /\ \A e \in out.fwd : /\ e.to = Lookup(out.stype, out.sid)
                                  /\ e.from = serverId[out.proc]
                                  /\ e.name = out.name /\ e.kind = out.stype /\ e.sid = out.sid
    /\ (Resumed /\ HGET(route[out.stype], ToStr(out.sid)) = <<>>) =>
           out.handled = {} /\ out.fwd = {} /\ out.sent = <<>>

\* C4 (as amended): for a message with a name that is not reserved, scoped to a room or
\* network entity, with no global handler for the name: a resident entity's handler is
\* fired with no store lookup and no forward; a non-resident entity whose routing entry
\* names another process gets the envelope forwarded exactly once to that process and no
\* handler fired; with no routing entry the message is dropped: no handler, no forward,
\* no response.
C4_DispatchNonReserved ==
    out.name \notin ReservedEvents => DispatchRule

\* A suspended frame resumes and forwards its message to the remote owner.
C4_Witness ==
    /\ Resumed /\ out.name \notin ReservedEvents
    /\ out.fwd # {}
    /\ Lookup(out.stype, out.sid) # serverId[out.proc]

\* C4 as stated, for every name without a global handler (a reserved name included).
C4_Original == DispatchRule

\* C5: when the owner of a room fires the room's handler for a message that another
\* process received from its local user U and forwarded, the sender it passes to the
\* handler is U.
C5_SenderPreserved ==
    (out.act = "deliver" /\ out.stype = "room" /\ out.from # serverId[out.proc]) =>
        \A h \in out.handled : h.sender = out.origin

\* The routing entry of (k, i) names a process on which the entity is not resident and
\* is not about to be registered.
Stale(k, i) ==
    /\ Truthy(Lookup(k, i))
    /\ \A p \in Procs : serverId[p] = Lookup(k, i) => ~Resident(p, k, i)
    /\ \A f \in calls : ~(f.kind = k /\ f.id = i)

\* C6: a message that was already forwarded to the process its routing entry names, and
\* misses there because the entry is stale, is dropped: it is not forwarded again.
C6_StaleDropped ==
    (out.act = "lookup" /\ out.via = "link" /\ Stale(out.stype, out.sid)) => out.fwd = {}

\* C7: a message of an authenticated user handled on the receiving process whose
\* handler calls the reply callback: with a correlation id c exactly one envelope is sent, with id c, holding
\* {err} after an error and the result otherwise; with no correlation id and no error
\* nothing is sent.
C7_ReplyRule ==
    (/\ out.act = "message" /\ out.state = "Authenticated"
     /\ out.handled # {} /\ out.reply \in {"ok", "err"}) =>
        IF out.corr # NoCorr
        THEN out.sent = <<Envelope(out.name, out.reply = "err", 0, out.corr)>>
        ELSE out.reply = "ok" => out.sent = <<>>

\* C8: a message other than _authenticate on a connection with no User bound fires no
\* handler, starts no lookup and forwards nothing.
C8_UnauthenticatedRejected ==
    (out.act = "message" /\ out.state \in {"Connecting", "Authenticating"}) =>
        out.handled = {} /\ ~out.suspended /\ out.fwd = {}

\* C9: an _authenticate message on a session that is Authenticating or Authenticated
\* allocates no identifier and starts no authentication, and a connection's bound User
\* is never replaced.
C9_SecondAuthenticateRejected ==
    /\ (out.act = "authenticate" /\ out.state \in {"Authenticating", "Authenticated"}) =>
           ~out.alloc /\ ~out.suspended
    /\ out.act = "connectUser" => out.prevUser = NoUser

\* C10: once a connection has closed, the local user registry holds no User of that
\* connection.
C10_ClosedUserRemoved ==
    \A c \in Conns : socket[c] = "closed" =>
        \A i \in Ids : users[ConnProc(c)][i] # c

\* The outcome of an authentication on a connection that is open when the policy calls
\* back or generateId returns; with `open` FALSE, on any connection.
AuthOutcome(open) ==
    /\ (out'.act = "authFailed" /\ (open => socket[out'.conn] = "open")) =>
           /\ out'.sent = <<Envelope("_authenticate", TRUE, 0, out'.corr)>>
           /\ out'.closeCalled
           /\ user' = user /\ users' = users
    /\ (out'.act = "connectUser" /\ (open => socket[out'.conn] = "open")) =>
           /\ socket'[out'.conn] = "open" /\ user'[out'.conn] # NoUser
           /\ user'[out'.conn] = out'.uid
           /\ users'[out'.proc][out'.uid] = out'.conn
           /\ ~hasAuth => retCount["user"][out'.uid] = 0 /\ retCount'["user"][out'.uid] = 1

\* C11: on a connection that is still open, a policy failure sends one error envelope,
\* closes the connection and creates no User; a policy success with id u, and with no
\* policy the return of generateId('user') with a fresh id, bind a User with that id,
\* registered locally, and the session is Authenticated.
C11_AuthOutcomeOpen == [][AuthOutcome(TRUE)]_vars

\* A policy reported failure on an open connection whose message had no correlation id.
C11_Witness ==
    out.act = "authFailed" /\ out.closeCalled /\ out.corr = NoCorr /\ out.sent # <<>>

\* C11 as stated, also for a connection that closed while the authentication was pending.
C11_Original == [][AuthOutcome(FALSE)]_vars

\* C12: a message with a reserved name, in any authentication state and with any scope,
\* gets one error envelope through the reply callback and nothing else happens: no
\* handler is fired, no lookup is started, nothing is forwarded, and the store, the
\* registries, the session and the pending frames are unchanged.
C12_ReservedNoEffect ==
    [][(out'.act = "message" /\ out'.name \in ReservedEvents) =>
          /\ out'.sent = <<Envelope(out'.name, TRUE, 0, out'.corr)>>
          /\ out'.handled = {} /\ ~out'.suspended /\ ~out'.hget /\ out'.fwd = {}
          /\ UNCHANGED <<store, locals, session, calls, policies, lookups, link>>]_vars

\* A reserved name scoped to a room arrives while the connection is authenticating.
C12_Witness ==
    /\ out.act = "message" /\ out.name \in ReservedEvents
    /\ out.state = "Authenticating" /\ out.stype = "room" /\ out.sent # <<>>

\* C13: when the handler fired for a message of an authenticated user throws, a message
\* with a correlation id gets exactly one error envelope with that id, and a message
\* without one gets nothing.
C13_HandlerErrorReplied ==
    (/\ out.act = "message" /\ out.state = "Authenticated"
     /\ out.handled # {} /\ out.reply = "throw") =>
        /\ Truthy(out.corr) => out.sent = <<Envelope(out.name, TRUE, 0, out.corr)>>
        /\ out.corr = NoCorr => out.sent = <<>>

\* C14: a user-scoped message of an authenticated sender, with no global handler for
\* its name, once users.get has resolved: when the user is in the registry of the
\* receiving process its handler is fired there and the link is not used; when the user
\* is in the registry of another process only, the message is on its way to being
\* forwarded (a store lookup is pending or one envelope was put on the link).
C14_UserScopeRouted ==
    (out.act = "userget" /\ out.sender # NoUser) =>
        /\ Resident(out.proc, "user", out.sid) =>
               /\ \E h \in out.handled : h.target = "user" /\ h.id = out.sid
               /\ out.fwd = {} /\ ~out.hget
        /\ (/\ ~Resident(out.proc, "user", out.sid)
            /\ \E q \in Procs \ {out.proc} : Resident(q, "user", out.sid)) =>
               out.suspended \/ Cardinality(out.fwd) = 1

\* The suspended frames, their history field left out.
Suspended(frames) == {[l EXCEPT !.overtaken = FALSE] : l \in frames}

SyncDispatch ==
    /\ out.act = "message" /\ out.reply # "reserved"
    /\ \/ out.name \in GlobalEvents
       \/ out.stype \in EntityKinds /\ Resident(out.proc, out.stype, out.sid)

C18_ZeroIdAnswered ==
    (/\ out.act = "message" /\ out.state = "Authenticated" /\ out.handled # {}
     /\ out.reply = "ok" /\ out.corr = 0) =>
        /\ Len(out.sent) = 1
        /\ out.sent[1] = Envelope(out.name, FALSE, 0, 0)

\* C19: the secondary indexes agree with the primary map: for every player p in the
\* registry getByUserId(p.user.id) and getByRoomId(p.room.id) return a player that is
\* in the registry and has that user / that room, and a destroyed player is in none of
\* the three maps.
C19_IndexesAgree ==
    /\ \A p \in players :
          /\ getByUserId(made[p].user) \in players
          /\ made[getByUserId(made[p].user)].user = made[p].user
          /\ getByRoomId(made[p].room) \in players
          /\ made[getByRoomId(made[p].room)].room = made[p].room
    /\ \A p \in gone :
          /\ p \notin players
          /\ \A u \in Ids : getByUserId(u) # p
          /\ \A r \in Ids : getByRoomId(r) # p

\* C20: on the client the callbackIds taken are pairwise distinct; the callback of a
\* request is invoked at most once; once a response for callbackId k has arrived, with
\* a result or with an error, slot k is no longer in the table of pending callbacks;
\* and the pending slots are as many as the requests sent with a callback and not yet
\* answered.
C20_CallbackSlots ==
    /\ \A i, j \in 1..Len(taken) : i # j => taken[i] # taken[j]
    /\ \A k \in CallbackIds : invoked[k] <= 1
    /\ \A k \in answered : k \notin callbacks
    /\ Cardinality(callbacks) = Len(taken) - Cardinality(answered)

\* C16: no two network entities ever created, in one registry or in two, were assigned
\* the same id, and the ids one registry assigned are strictly increasing.
C16_EntityIdsUnique ==
    /\ \A r1, r2 \in Registries :
          \A i \in DOMAIN assigned[r1], j \in DOMAIN assigned[r2] :
             (r1 # r2 \/ i # j) => assigned[r1][i] # assigned[r2][j]
    /\ \A r \in Registries : \A i, j \in DOMAIN assigned[r] :
          i < j => assigned[r][i] < assigned[r][j]

====
